---- MODULE Spec2Model ----
(***************************************************************************)
(* Model of the passkey starter's three-layer authorization pipeline:      *)
(* the edge checkpoint (proxy / Auth.js middleware), the page and API      *)
(* route guards (auth-utils), the server actions and the settings route,   *)
(* over a store of accounts, credentials and database sessions.            *)
(***************************************************************************)
EXTENDS Integers, Sequences, FiniteSets, TLC

VARIABLES
    \* ---- navigation of one client through the edge and the pages
    edgeBuild,   \* which edge checkpoint the deployment exports
    homeBuild,   \* which Home page the deployment has
    dashBuild,   \* which DashboardPage the deployment has
    navSession,  \* what auth() resolves for this client (fixed per behaviour)
    navStart,    \* the pathname the client first asked for
    navPath,     \* the pathname of the current request
    navStage,    \* "request" | "forwarded" | "redirected" | "done"
    navHops,     \* redirects followed so far
    navResp,     \* the last response produced (by the edge or by a handler)
    \* ---- the store and the handlers running against it
    users,       \* User rows: id -> [exists, name, email]
    sessions,    \* Session rows: session token -> owning user id or "none"
    credentials, \* Authenticator rows: credential id -> owning user id or "none"
    reqs,        \* handler invocations in flight: slot -> request record
    started,     \* number of handler invocations begun
    writers,     \* history: id -> the session users whose calls changed that id's rows
    last,        \* what the handler or guard that returned last returned
    \* ---- the sign-in form in the browser
    form,        \* SignInForm's React state: [email, isLoading, error, mode]
    call         \* the latest handlePasskeyAuth invocation and what it did

navVars == <<edgeBuild, homeBuild, dashBuild, navSession, navStart, navPath,
             navStage, navHops, navResp>>

storeVars == <<users, sessions, credentials, reqs, started, writers, last>>

formVars == <<form, call>>

vars == <<navVars, storeVars, formVars>>

----------------------------------------------------------------------------
(* Pathnames are sequences of tokens.  No token is a prefix of another, so  *)
(* the prefix order on token sequences is String.prototype.startsWith on    *)
(* the strings they spell.                                                  *)

MaxSuffixLen == 2
MaxHops == 4
MaxRequests == 2

SuffixTokens == {"/", "x", "."}
SingleCharTokens == {"/", "x", "."}

RootPath      == <<"/">>
SignInPath    == <<"/", "auth", "/", "signin">>
ErrorPath     == <<"/", "auth", "/", "error">>
SignOutPath   == <<"/", "auth", "/", "signout">>
ApiAuthPath   == <<"/", "api", "/", "auth">>
DashboardPath == <<"/", "dashboard">>
ProfileApiPath  == <<"/", "api", "/", "user", "/", "profile">>
SettingsApiPath == <<"/", "api", "/", "user", "/", "settings">>

BasePaths ==
    { RootPath, SignInPath, ErrorPath, SignOutPath, ApiAuthPath, DashboardPath,
      ProfileApiPath, SettingsApiPath,
      <<"/", "auth">>, <<"/", "api">>, <<"/", "api", "/", "user">>,
      <<"/", "_next", "/", "static">>, <<"/", "_next", "/", "image">>,
      <<"/", "favicon", ".", "ico">> }

SeqsUpTo(S, n) == UNION { [1..k -> S] : k \in 0..n }

Paths == { b \o s : b \in BasePaths, s \in SeqsUpTo(SuffixTokens, MaxSuffixLen) }

StartsWith(s, p) == Len(p) <= Len(s) /\ SubSeq(s, 1, Len(p)) = p

Contains(s, t) == \E i \in 1..Len(s) : s[i] = t

\* encodeURIComponent / URLSearchParams serialisation: "/" is escaped.
EncodeToken(t) == IF t = "/" THEN "%2F" ELSE t
DecodeToken(t) == IF t = "%2F" THEN "/" ELSE t
encodeURIComponent(s) == [i \in 1..Len(s) |-> EncodeToken(s[i])]
decodeURIComponent(s) == [i \in 1..Len(s) |-> DecodeToken(s[i])]

----------------------------------------------------------------------------
(* Sessions as auth() returns them.                                         *)

NoSession == [user |-> "none"]
HasUser(session) == session.user # "none"

----------------------------------------------------------------------------
(* Responses.                                                               *)

NoQuery == <<>>
Forward(byName)   == [by |-> byName, kind |-> "next", path |-> <<>>, callbackUrl |-> NoQuery, status |-> 0]
Redirect(byName, to, cb) == [by |-> byName, kind |-> "redirect", path |-> to, callbackUrl |-> cb, status |-> 307]
Render(byName, view)  == [by |-> byName, kind |-> view, path |-> <<>>, callbackUrl |-> NoQuery, status |-> 200]
Json(byName, code)    == [by |-> byName, kind |-> "json", path |-> <<>>, callbackUrl |-> NoQuery, status |-> code]
NoResp == [by |-> "none", kind |-> "none", path |-> <<>>, callbackUrl |-> NoQuery, status |-> 0]

----------------------------------------------------------------------------
(* proxy.ts                                                                 *)

authRoutes_NoSignIn == { ErrorPath, SignOutPath, ApiAuthPath }

authRoutes == { SignInPath, ErrorPath, SignOutPath, ApiAuthPath }
publicRoutes == {}

isRouteMatch_ExactPages(pathname, routes) ==
    \E route \in routes :
        \/ pathname = route
        \/ StartsWith(route, <<"/", "api", "/">>) /\ StartsWith(pathname, route)

isRouteMatch(pathname, routes) ==
    \E route \in routes :
        \/ pathname = route
        \/ StartsWith(route, <<"/", "api", "/">>) /\ StartsWith(pathname, route)
        \/ StartsWith(route, <<"/", "auth">>) /\ StartsWith(pathname, route)

proxy_NoCallback(pathname, session) ==
    IF isRouteMatch(pathname, authRoutes) THEN Forward("edge")
    ELSE IF isRouteMatch(pathname, publicRoutes) THEN Forward("edge")
    ELSE IF ~HasUser(session)
         THEN Redirect("edge", SignInPath, NoQuery)
         ELSE Forward("edge")

proxy(pathname, session) ==
    IF isRouteMatch(pathname, authRoutes) THEN Forward("edge")
    ELSE IF isRouteMatch(pathname, publicRoutes) THEN Forward("edge")
    ELSE IF ~HasUser(session)
         THEN Redirect("edge", SignInPath, encodeURIComponent(pathname))
         ELSE Forward("edge")

\* config.matcher: '/((?!api/auth|auth|_next/static|_next/image|favicon.ico|.*\\..*).*)'
matcher(pathname) ==
    /\ Len(pathname) >= 1
    /\ pathname[1] = "/"
    /\ LET rest == Tail(pathname) IN
         /\ ~StartsWith(rest, <<"api", "/", "auth">>)
         /\ ~StartsWith(rest, <<"auth">>)
         /\ ~StartsWith(rest, <<"_next", "/", "static">>)
         /\ ~StartsWith(rest, <<"_next", "/", "image">>)
         /\ ~(/\ StartsWith(rest, <<"favicon">>)
              /\ Len(rest) >= 3
              /\ rest[2] \in SingleCharTokens
              /\ rest[3] = "ico")
         /\ ~Contains(rest, ".")

----------------------------------------------------------------------------
(* auth.ts: the authorized callback run by `export { auth as proxy }`.      *)

authorized_v1(authSession, pathname) ==
    IF pathname = RootPath THEN TRUE ELSE HasUser(authSession)

authorized_v2(authSession, pathname) == HasUser(authSession)

\* Auth.js middleware: authorized() false => redirect to pages.signIn with
\* the request URL as callbackUrl, unless the request is for pages.signIn.
authProxy(isAuthorized, pathname) ==
    IF isAuthorized \/ pathname = SignInPath THEN Forward("edge")
    ELSE Redirect("edge", SignInPath, encodeURIComponent(pathname))

EdgeBuilds == {"proxy", "authorized_v1", "authorized_v2"}

\* The edge checkpoint as deployed: the exported proxy behind config.matcher.
Edge(build, pathname, session) ==
    IF ~matcher(pathname) THEN Forward("unmatched")
    ELSE IF build = "proxy" THEN proxy(pathname, session)
    ELSE IF build = "authorized_v1"
         THEN authProxy(authorized_v1(session, pathname), pathname)
         ELSE authProxy(authorized_v2(session, pathname), pathname)

----------------------------------------------------------------------------
(* auth-utils.ts: the page guard.  A thrown redirect() is the result        *)
(* [redirect |-> TRUE, to, callbackUrl]; otherwise the session is returned. *)

requireAuthWithRedirect(session, hasRedirectTo, redirectTo) ==
    IF ~HasUser(session)
    THEN [redirect |-> TRUE, to |-> SignInPath,
          callbackUrl |-> IF hasRedirectTo THEN encodeURIComponent(redirectTo) ELSE NoQuery]
    ELSE [redirect |-> FALSE, to |-> <<>>, callbackUrl |-> NoQuery]

----------------------------------------------------------------------------
(* The pages and route handlers a GET navigation can reach.                 *)

\* app/page.tsx, the home page that reads auth() and renders either card.
Home_v1(session) ==
    IF HasUser(session) THEN Render("page", "home") ELSE Render("page", "home-public")

\* The home page guarded by requireAuthWithRedirect().
Home_v2(session) ==
    LET g == requireAuthWithRedirect(session, FALSE, <<>>) IN
    IF g.redirect THEN Redirect("page", g.to, g.callbackUrl) ELSE Render("page", "home")

\* app/dashboard/page.tsx guarded by auth() and redirect("/auth/signin").
DashboardPage_v1(session) ==
    IF ~HasUser(session) THEN Redirect("page", SignInPath, NoQuery)
    ELSE Render("page", "dashboard")

\* The dashboard guarded by requireAuthWithRedirect("/dashboard").
DashboardPage_v2(session) ==
    LET g == requireAuthWithRedirect(session, TRUE, DashboardPath) IN
    IF g.redirect THEN Redirect("page", g.to, g.callbackUrl) ELSE Render("page", "dashboard")

\* A sign-in page that renders the form whatever the session.
SignInPage_NoRedirect(session) == Render("page", "signin-form")

SignInPage(session) ==
    IF HasUser(session) THEN Redirect("page", DashboardPath, NoQuery)
    ELSE Render("page", "signin-form")

AuthErrorPage == Render("page", "auth-error")

\* GET /api/user/profile and GET /api/user/settings as a navigation sees them:
\* requireApiAuth's 401, else the JSON of the session's account.
ApiGet(session) ==
    IF ~HasUser(session) THEN Json("page", 401) ELSE Json("page", 200)

\* The app router: which handler serves a pathname.
Handle(pathname, session, home, dash) ==
    IF pathname = RootPath
        THEN (IF home = "v1" THEN Home_v1(session) ELSE Home_v2(session))
    ELSE IF pathname = DashboardPath
        THEN (IF dash = "v1" THEN DashboardPage_v1(session) ELSE DashboardPage_v2(session))
    ELSE IF pathname = SignInPath THEN SignInPage(session)
    ELSE IF pathname = ErrorPath THEN AuthErrorPage
    ELSE IF pathname \in {ProfileApiPath, SettingsApiPath} THEN ApiGet(session)
    ELSE IF StartsWith(pathname, ApiAuthPath) THEN Json("authjs", 200)
    ELSE Render("page", "not-found")

----------------------------------------------------------------------------
(* signin-form.tsx: SignInForm, the client component behind /auth/signin.   *)

Emails == {"", "e1", "e2"}

\* useState("") / useState(false) / useState(null) / useState("signin")
FormState0 == [email |-> "", isLoading |-> FALSE, error |-> "null", mode |-> "signin"]

\* signIn("passkey", { action, email }) of next-auth/webauthn: the arguments
\* of the call that starts a ceremony; `email` is "undef" when not passed.
NoSignIn == [called |-> FALSE, action |-> "none", email |-> "undef"]
signIn(action, email) == [called |-> TRUE, action |-> action, email |-> email]

\* How the awaited signIn settles: it resolves, rejects with an Error, or
\* rejects with a value that is not an Error.
Outcomes == {"resolved", "threwError", "threwOther"}

\* A handlePasskeyAuth invocation: the action it was called with, the email
\* its closure held, the signIn call it made, and the setIsLoading and
\* setError calls it has made so far, in order.
NoCall ==
    [pc |-> "idle", action |-> "none", email |-> "", signIn |-> NoSignIn,
     setIsLoading |-> <<>>, setError |-> <<>>]

\* The value a state variable holds after the setter calls in `sets`.
After(sets, current) == IF sets = <<>> THEN current ELSE sets[Len(sets)]

\* handlePasskeyAuth up to its await, without the email check.
handlePasskeyAuth_try_NoEmailCheck(action, email) ==
    IF action = "register"
    THEN [setIsLoading |-> <<TRUE>>, setError |-> <<"null">>,
          signIn |-> signIn("register", email), awaiting |-> TRUE]
    ELSE [setIsLoading |-> <<TRUE>>, setError |-> <<"null">>,
          signIn |-> signIn("authenticate", "undef"), awaiting |-> TRUE]

\* handlePasskeyAuth up to its await: setIsLoading(true); setError(null);
\* try { ... await signIn(...) }.  With no email a register attempt returns
\* inside the try block, and the finally block runs on the way out.
handlePasskeyAuth_try(action, email) ==
    IF action = "register"
    THEN IF email = ""
         THEN [setIsLoading |-> <<TRUE, FALSE, FALSE>>,
               setError |-> <<"null", "Email is required for registration">>,
               signIn |-> NoSignIn, awaiting |-> FALSE]
         ELSE [setIsLoading |-> <<TRUE>>, setError |-> <<"null">>,
               signIn |-> signIn("register", email), awaiting |-> TRUE]
    ELSE [setIsLoading |-> <<TRUE>>, setError |-> <<"null">>,
          signIn |-> signIn("authenticate", "undef"), awaiting |-> TRUE]

\* The rest of handlePasskeyAuth with setIsLoading(false) at the end of the
\* try block instead of in a finally block.
handlePasskeyAuth_settle_NoFinally(outcome) ==
    IF outcome = "resolved" THEN [setIsLoading |-> <<FALSE>>, setError |-> <<>>]
    ELSE IF outcome = "threwError" THEN [setIsLoading |-> <<>>, setError |-> <<"err.message">>]
    ELSE [setIsLoading |-> <<>>, setError |-> <<"An error occurred. Please try again.">>]

\* The rest of handlePasskeyAuth once signIn has settled:
\* catch (err) { setError(...) } finally { setIsLoading(false) }
handlePasskeyAuth_settle(outcome) ==
    IF outcome = "resolved" THEN [setIsLoading |-> <<FALSE>>, setError |-> <<>>]
    ELSE IF outcome = "threwError"
         THEN [setIsLoading |-> <<FALSE>>, setError |-> <<"err.message">>]
    ELSE [setIsLoading |-> <<FALSE>>,
          setError |-> <<"An error occurred. Please try again.">>]

\* <Input value={email} onChange={(e) => setEmail(e.target.value)}
\*        disabled={isLoading} />, rendered in register mode only.
setEmail(e) ==
    /\ form.mode = "register"
    /\ ~form.isLoading
    /\ form' = [form EXCEPT !.email = e]
    /\ UNCHANGED <<call, navVars, storeVars>>

\* The ghost button: setMode(the other mode); setError(null).
setMode ==
    /\ ~form.isLoading
    /\ form' = [form EXCEPT !.mode = IF @ = "signin" THEN "register" ELSE "signin",
                            !.error = "null"]
    /\ UNCHANGED <<call, navVars, storeVars>>

\* handlePasskeyAuth(action) runs to its await or to its return.  One
\* invocation is in flight at a time.
handlePasskeyAuth(action) ==
    /\ call.pc = "idle"
    /\ LET t == handlePasskeyAuth_try(action, form.email) IN
         /\ form' = [form EXCEPT !.isLoading = After(t.setIsLoading, @),
                                 !.error = After(t.setError, @)]
         /\ call' = [pc |-> IF t.awaiting THEN "awaiting" ELSE "idle",
                     action |-> action, email |-> form.email, signIn |-> t.signIn,
                     setIsLoading |-> t.setIsLoading, setError |-> t.setError]
    /\ UNCHANGED <<navVars, storeVars>>

\* The submit button: onClick={() => handlePasskeyAuth(mode)}, behind
\* disabled={isLoading || (mode === "register" && !email)}.
SubmitButton ==
    /\ ~(form.isLoading \/ (form.mode = "register" /\ form.email = ""))
    /\ handlePasskeyAuth(form.mode)

\* The awaited signIn settles and the handler runs to its end.
signIn_settles(outcome) ==
    /\ call.pc = "awaiting"
    /\ LET t == handlePasskeyAuth_settle(outcome) IN
         /\ form' = [form EXCEPT !.isLoading = After(t.setIsLoading, @),
                                 !.error = After(t.setError, @)]
         /\ call' = [call EXCEPT !.pc = "idle",
                                 !.setIsLoading = @ \o t.setIsLoading,
                                 !.setError = @ \o t.setError]
    /\ UNCHANGED <<navVars, storeVars>>

\* The form as mounted, nothing clicked.
FormIdle == form = FormState0 /\ call = NoCall

----------------------------------------------------------------------------
(* One client following redirects, under a fixed session state.             *)

\* The store is not part of a navigation.
StoreIdle ==
    /\ users = [i \in {"A", "B"} |-> [exists |-> TRUE, name |-> "n0", email |-> "null"]]
    /\ sessions = [t \in {"tA", "tA2", "tB"} |-> "none"]
    /\ credentials = [c \in {"cA", "cB"} |-> "none"]
    /\ reqs = [r \in {"r1", "r2"} |-> [pc |-> "idle"]]
    /\ started = 0
    /\ writers = [i \in {"A", "B"} |-> {}]
    /\ last = [op |-> "none"]

InitNav ==
    /\ edgeBuild \in EdgeBuilds
    /\ homeBuild \in {"v1", "v2"}
    /\ dashBuild \in {"v1", "v2"}
    /\ navSession \in {NoSession, [user |-> "A"]}
    /\ navStart \in Paths
    /\ navPath = navStart
    /\ navStage = "request"
    /\ navHops = 0
    /\ navResp = NoResp
    /\ StoreIdle
    /\ FormIdle

\* Layer 1: the request reaches the edge checkpoint.
EdgeCheckpoint ==
    /\ navStage = "request"
    /\ navResp' = Edge(edgeBuild, navPath, navSession)
    /\ navStage' = IF navResp'.kind = "redirect" THEN "redirected" ELSE "forwarded"
    /\ UNCHANGED <<edgeBuild, homeBuild, dashBuild, navSession, navStart, navPath, navHops>>
    /\ UNCHANGED <<storeVars, formVars>>

\* The exported proxy function invoked on the request without the matcher.
ProxyDirect ==
    /\ navStage = "request"
    /\ edgeBuild = "proxy"
    /\ navResp' = [proxy(navPath, navSession) EXCEPT !.by = "proxy-direct"]
    /\ navStage' = IF navResp'.kind = "redirect" THEN "redirected" ELSE "forwarded"
    /\ UNCHANGED <<edgeBuild, homeBuild, dashBuild, navSession, navStart, navPath, navHops>>
    /\ UNCHANGED <<storeVars, formVars>>

\* Layer 2: the forwarded request reaches its page or route handler.
PageHandler ==
    /\ navStage = "forwarded"
    /\ navResp' = Handle(navPath, navSession, homeBuild, dashBuild)
    /\ navStage' = IF navResp'.kind = "redirect" THEN "redirected" ELSE "done"
    /\ UNCHANGED <<edgeBuild, homeBuild, dashBuild, navSession, navStart, navPath, navHops>>
    /\ UNCHANGED <<storeVars, formVars>>

\* The client follows the redirect it received.
FollowRedirect ==
    /\ navStage = "redirected"
    /\ navHops < MaxHops
    /\ navPath' = navResp.path
    /\ navHops' = navHops + 1
    /\ navStage' = "request"
    /\ navResp' = NoResp
    /\ UNCHANGED <<edgeBuild, homeBuild, dashBuild, navSession, navStart>>
    /\ UNCHANGED <<storeVars, formVars>>

NextNav == EdgeCheckpoint \/ ProxyDirect \/ PageHandler \/ FollowRedirect

SpecNav == InitNav /\ [][NextNav]_vars


----------------------------------------------------------------------------
(* The store: User, Session and Authenticator rows behind Prisma.           *)

Ids == {"A", "B"}
Tokens == {"tA", "tA2", "tB"}
CredIds == {"cA", "cB"}
Slots == {"r1", "r2"}

\* The account a session token was issued to, and the one a passkey belongs to.
TokenUser(t) == IF t \in {"tA", "tA2"} THEN "A" ELSE "B"
CredUser(c) == IF c = "cA" THEN "A" ELSE "B"

\* Thrown values: an Error's name and message.
NoThrow == [name |-> "none", message |-> "none"]
Thrown(n, m) == [name |-> n, message |-> m]
AuthenticationError(m) == Thrown("AuthenticationError", m)

\* The store failing under a call (connection lost, timeout).
StoreFailure == Thrown("PrismaClientInitializationError", "Can't reach database server")

Absent == [exists |-> FALSE, name |-> "null", email |-> "null"]

Db == [users |-> users, sessions |-> sessions, credentials |-> credentials]

\* A Session row is "none" before its token is issued, the owning user's id
\* while it is valid, "revoked" once sign-out deleted it and "expired" once
\* its lifetime ran out.

\* auth() under session.strategy "jwt": the cookie itself carries the user and
\* stays valid after sign-out.
auth_Jwt(db, token) ==
    IF token \in Tokens /\ db.sessions[token] # "none" /\ db.users[TokenUser(token)].exists
    THEN [user |-> TokenUser(token)]
    ELSE NoSession

\* auth() under session.strategy "database": the Session row of the presented
\* cookie joined with its User row; null when either is missing.
auth(db, token) ==
    IF token \in Tokens /\ db.sessions[token] \in Ids /\ db.users[db.sessions[token]].exists
    THEN [user |-> db.sessions[token]]
    ELSE NoSession

\* prisma.user.findUnique({ where: { id } })
user_findUnique(db, id) == IF id \in Ids THEN db.users[id] ELSE Absent

\* The store without a unique index on User.email.
emailTaken_NoIndex(db, id, email) == FALSE

\* User.email is unique: writing `email` to row `id` collides when another
\* row already holds it.
emailTaken(db, id, email) ==
    /\ email \notin {"undef", "null"}
    /\ \E o \in Ids \ {id} : db.users[o].exists /\ db.users[o].email = email

\* An update that replaces the row: a field absent from `data` is cleared.
user_update_ReplaceRow(db, id, data) ==
    IF ~(id \in Ids /\ db.users[id].exists)
        THEN [threw |-> Thrown("PrismaClientKnownRequestError", "Record to update not found"),
              db |-> db]
    ELSE [threw |-> NoThrow,
          db |-> [db EXCEPT !.users[id] =
                    [exists |-> TRUE,
                     name  |-> IF data.name # "undef" THEN data.name ELSE "null",
                     email |-> IF data.email # "undef" THEN data.email ELSE "null"]]]

\* An update that creates the row when it is missing, as prisma.user.upsert does.
user_update_Upsert(db, id, data) ==
    [threw |-> NoThrow,
     db |-> [db EXCEPT !.users[id] =
               [exists |-> TRUE,
                name  |-> IF data.name # "undef" THEN data.name ELSE @.name,
                email |-> IF data.email # "undef" THEN data.email ELSE @.email]]]

\* prisma.user.update({ where: { id }, data }): "undef" fields are left alone.
user_update(db, id, data) ==
    IF ~(id \in Ids /\ db.users[id].exists)
        THEN [threw |-> Thrown("PrismaClientKnownRequestError", "Record to update not found"),
              db |-> db]
    ELSE IF emailTaken(db, id, data.email)
        THEN [threw |-> Thrown("PrismaClientKnownRequestError", "Unique constraint failed"),
              db |-> db]
    ELSE [threw |-> NoThrow,
          db |-> [db EXCEPT !.users[id] =
                    [exists |-> TRUE,
                     name  |-> IF data.name # "undef" THEN data.name ELSE @.name,
                     email |-> IF data.email # "undef" THEN data.email ELSE @.email]]]

\* tx.user.delete({ where: { id } }): the User row goes, and with it the
\* Session and Authenticator rows that reference it (onDelete: Cascade).
user_delete(db, id) ==
    IF ~(id \in Ids /\ db.users[id].exists)
        THEN [threw |-> Thrown("PrismaClientKnownRequestError", "Record to delete does not exist"),
              db |-> db]
    ELSE [threw |-> NoThrow,
          db |-> [users |-> [db.users EXCEPT ![id] = Absent],
                  sessions |-> [t \in Tokens |->
                                 IF db.sessions[t] = id THEN "none" ELSE db.sessions[t]],
                  credentials |-> [c \in CredIds |->
                                 IF db.credentials[c] = id THEN "none" ELSE db.credentials[c]]]]

----------------------------------------------------------------------------
(* auth-utils.ts: the guards of server actions and API routes.  `session`   *)
(* is what the guard's own `await auth()` returned.                         *)

requireAuth_Generic(session) ==
    IF ~HasUser(session)
    THEN [threw |-> Thrown("Error", "You must be signed in to access this resource"),
          session |-> NoSession]
    ELSE [threw |-> NoThrow, session |-> session]

requireAuth(session) ==
    IF ~HasUser(session)
    THEN [threw |-> AuthenticationError("You must be signed in to access this resource"),
          session |-> NoSession]
    ELSE [threw |-> NoThrow, session |-> session]

\* requireUser without the session check of requireAuth.
requireUser_NoCheck(session) == [threw |-> NoThrow, user |-> session.user]

requireUser(session) ==
    LET r == requireAuth(session) IN
    [threw |-> r.threw, user |-> r.session.user]

\* A getOptionalAuth that insists on a session, as requireAuth does.
getOptionalAuth_Throws(session) ==
    IF ~HasUser(session)
    THEN [threw |-> AuthenticationError("You must be signed in to access this resource"),
          redirect |-> FALSE, session |-> NoSession]
    ELSE [threw |-> NoThrow, redirect |-> FALSE, session |-> session]

\* return await auth();
getOptionalAuth(session) == [threw |-> NoThrow, redirect |-> FALSE, session |-> session]

requireApiAuth_Allow(session) ==
    [error |-> "none", status |-> 0, body |-> "none", user |-> session.user]

requireApiAuth(session) ==
    IF ~HasUser(session)
    THEN [error |-> "Unauthorized", status |-> 401,
          body |-> "Authentication required", user |-> "none"]
    ELSE [error |-> "none", status |-> 0, body |-> "none", user |-> session.user]

----------------------------------------------------------------------------
(* Handler invocations.  A handler suspends at `await`: between its session *)
(* check and its store call other handlers may run.                         *)

ServerActions == {"updateProfile", "deleteAccount"}
ApiRoutes == {"GET_profile", "GET_settings", "PUT_settings"}
Guards == {"proxy", "requireAuth", "requireUser", "requireAuthWithRedirect", "requireApiAuth"}

IdleReq == [pc |-> "idle", op |-> "none", token |-> "none", user |-> "none"]

\* The handler passed its session check and holds the session's user.
Authed(op, token, user) == [pc |-> "authed", op |-> op, token |-> token, user |-> user]

\* A new invocation takes the first idle slot.
Free(r) == reqs[r].pc = "idle" /\ (r = "r2" => reqs["r1"].pc # "idle")

\* What an invocation returned, and what it did to get there:
\*   token      the session cookie the request presented ("none": no cookie)
\*   user       the user its session check resolved ("none": no session)
\*   target     the account id the request itself named ("undef": none)
\*   entered    whether the logic behind the session check was entered
\*   storeCalls how many prisma calls it made
\*   wroteTo    the id its write was keyed on ("none": no write issued)
\*   changed    the ids whose rows its write changed
\*   dataOf     the id whose data it returned
\*   details    the fields its validation error names
\*   supplied   the fields its write passed as `data`
\* and what it was given:
\*   input      "unparsable", "invalid" or "valid" once the input was read
\*   existed    whether the session user's row existed when the store was called
\*   conflict   whether another account held the requested email at that time
\*   storeDown  whether the store failed under the call
NoResult ==
    [op |-> "none", token |-> "none", user |-> "none", http |-> 0, success |-> FALSE, error |-> "none",
     target |-> "undef", entered |-> FALSE, storeCalls |-> 0, wroteTo |-> "none",
     changed |-> {}, dataOf |-> "none", details |-> {}, supplied |-> {},
     input |-> "none", existed |-> FALSE, conflict |-> FALSE, storeDown |-> FALSE]

Result(op, user, token) == [NoResult EXCEPT !.op = op, !.user = user, !.token = token]

Returned(res, http, success, error) ==
    [res EXCEPT !.http = http, !.success = success, !.error = error]

\* The ids whose User, Session or Authenticator rows differ between two stores.
Touched(db1, db2) ==
    { i \in Ids :
        \/ db1.users[i] # db2.users[i]
        \/ \E t \in Tokens : (db1.sessions[t] = i) # (db2.sessions[t] = i)
        \/ \E c \in CredIds : (db1.credentials[c] = i) # (db2.credentials[c] = i) }

Commit(db, actor) ==
    /\ users' = db.users
    /\ sessions' = db.sessions
    /\ credentials' = db.credentials
    /\ writers' = [i \in Ids |->
                     IF i \in Touched(Db, db) THEN writers[i] \cup {actor} ELSE writers[i]]

\* Inputs.
NameInputs == {"null", "", "n1", "long"}
TargetInputs == {"undef", "B"}
Unparsable == [json |-> FALSE, name |-> "undef", email |-> "undef", id |-> "undef"]
Bodies ==
    {Unparsable} \cup
    [json : {TRUE}, name : {"undef", "", "n1"}, email : {"undef", "bad", "e1", "e2"},
     id : TargetInputs]

\* What the client sent, classified by the documented input rules.
NameKind(name) == IF name \in {"null", "", "long"} THEN "invalid" ELSE "valid"
BodyKind(body) ==
    IF ~body.json THEN "unparsable"
    ELSE IF body.name = "" \/ body.email = "bad" THEN "invalid"
    ELSE "valid"

\* Another existing account holds `email`.
HeldByOther(id, email) ==
    \E o \in Ids \ {id} : users[o].exists /\ users[o].email = email

\* A session check is the first step of an invocation.
Begin(r) ==
    /\ Free(r)
    /\ started < MaxRequests
    /\ started' = started + 1

----------------------------------------------------------------------------
(* user-actions.ts: updateProfile                                           *)

\* updateProfileSchema.safeParse({ name }) and errors[0]?.message
updateProfileSchema(name) ==
    IF name = "null" THEN [success |-> FALSE, message |-> "Expected string, received null"]
    ELSE IF name = "" THEN [success |-> FALSE, message |-> "Name must not be empty"]
    ELSE IF name = "long" THEN [success |-> FALSE, message |-> "Name too long"]
    ELSE [success |-> TRUE, message |-> "none"]

\* A catch block that passes the error's own text on.
updateProfile_catch_Raw(error) == error.message

\* The catch block of updateProfile.
updateProfile_catch(error) ==
    IF error.name = "AuthenticationError"
    THEN "You must be signed in to update your profile"
    ELSE "Failed to update profile. Please try again."

\* try { const user = await requireUser(); ...
updateProfile_requireUser(r, token) ==
    /\ Begin(r)
    /\ LET u == requireUser(auth(Db, token)) IN
         IF u.threw # NoThrow
         THEN /\ last' = Returned(Result("updateProfile", "none", token), 0, FALSE,
                                  updateProfile_catch(u.threw))
              /\ UNCHANGED reqs
         ELSE /\ reqs' = [reqs EXCEPT ![r] = Authed("updateProfile", token, u.user)]
              /\ UNCHANGED last
    /\ UNCHANGED <<users, sessions, credentials, writers, navVars, formVars>>

\* The id the update is keyed on, were it taken from the form when present.
updateProfile_where_FromForm(user, formId) == IF formId # "undef" THEN formId ELSE user

\* where: { id: user.id }
updateProfile_where(user, formId) == user

\* ... validate the name and prisma.user.update it; `formId` is an id field a
\* client may add to the form data.
updateProfile_update(r, name, formId, dbFails) ==
    /\ reqs[r].pc = "authed"
    /\ reqs[r].op = "updateProfile"
    /\ LET res == [Result("updateProfile", reqs[r].user, reqs[r].token) EXCEPT
                      !.entered = TRUE, !.target = formId, !.input = NameKind(name)]
           v   == updateProfileSchema(name)
           id  == updateProfile_where(reqs[r].user, formId)
           w   == IF dbFails THEN [threw |-> StoreFailure, db |-> Db]
                  ELSE user_update(Db, id, [name |-> name, email |-> "undef"])
           called == [res EXCEPT !.storeCalls = 1, !.wroteTo = id,
                                 !.changed = Touched(Db, w.db),
                                 !.supplied = {"name"},
                                 !.existed = user_findUnique(Db, reqs[r].user).exists,
                                 !.storeDown = dbFails]
       IN IF ~v.success
          THEN /\ last' = Returned(res, 0, FALSE, v.message)
               /\ UNCHANGED <<users, sessions, credentials, writers>>
          ELSE /\ Commit(w.db, reqs[r].user)
               /\ last' = IF w.threw # NoThrow
                          THEN Returned(called, 0, FALSE, updateProfile_catch(w.threw))
                          ELSE Returned(called, 0, TRUE, "none")
    /\ reqs' = [reqs EXCEPT ![r] = IdleReq]
    /\ UNCHANGED <<started, navVars, formVars>>

----------------------------------------------------------------------------
(* user-actions.ts: deleteAccount                                           *)

deleteAccount_catch(error) ==
    IF error.name = "AuthenticationError"
    THEN "You must be signed in to delete your account"
    ELSE "Failed to delete account. Please try again."

deleteAccount_requireUser(r, token) ==
    /\ Begin(r)
    /\ LET u == requireUser(auth(Db, token)) IN
         IF u.threw # NoThrow
         THEN /\ last' = Returned(Result("deleteAccount", "none", token), 0, FALSE,
                                  deleteAccount_catch(u.threw))
              /\ UNCHANGED reqs
         ELSE /\ reqs' = [reqs EXCEPT ![r] = Authed("deleteAccount", token, u.user)]
              /\ UNCHANGED last
    /\ UNCHANGED <<users, sessions, credentials, writers, navVars, formVars>>

\* The same delete issued outside a transaction: a failure after the User row
\* is gone leaves its dependent rows behind.
deleteAccount_transaction_NotAtomic(db, id, dbFails) ==
    IF dbFails /\ id \in Ids
    THEN [threw |-> StoreFailure, db |-> [db EXCEPT !.users[id] = Absent]]
    ELSE user_delete(db, id)

\* prisma.$transaction(async (tx) => { await tx.user.delete(...) }): commits
\* the whole delete or, on failure, nothing.
deleteAccount_transaction(db, id, dbFails) ==
    IF dbFails THEN [threw |-> StoreFailure, db |-> db]
    ELSE user_delete(db, id)

deleteAccount_delete(r, dbFails) ==
    /\ reqs[r].pc = "authed"
    /\ reqs[r].op = "deleteAccount"
    /\ LET res == [Result("deleteAccount", reqs[r].user, reqs[r].token) EXCEPT !.entered = TRUE]
           w   == deleteAccount_transaction(Db, reqs[r].user, dbFails)
           called == [res EXCEPT !.storeCalls = 1, !.wroteTo = reqs[r].user,
                                 !.changed = Touched(Db, w.db),
                                 !.existed = user_findUnique(Db, reqs[r].user).exists,
                                 !.storeDown = dbFails]
       IN /\ Commit(w.db, reqs[r].user)
          /\ last' = IF w.threw # NoThrow
                     THEN Returned(called, 0, FALSE, deleteAccount_catch(w.threw))
                     ELSE Returned(called, 0, TRUE, "none")
    /\ reqs' = [reqs EXCEPT ![r] = IdleReq]
    /\ UNCHANGED <<started, navVars, formVars>>

----------------------------------------------------------------------------
(* user-actions.ts: getUserStats                                            *)

getUserStats_catch(error) ==
    IF error.name = "AuthenticationError"
    THEN "You must be signed in to view stats"
    ELSE "Failed to fetch stats"

\* try { const session = await requireAuth(); ...
getUserStats_requireAuth(r, token) ==
    /\ Begin(r)
    /\ LET a == requireAuth(auth(Db, token)) IN
         IF a.threw # NoThrow
         THEN /\ last' = Returned(Result("getUserStats", "none", token), 0, FALSE,
                                  getUserStats_catch(a.threw))
              /\ UNCHANGED reqs
         ELSE /\ reqs' = [reqs EXCEPT ![r] = Authed("getUserStats", token, a.session.user)]
              /\ UNCHANGED last
    /\ UNCHANGED <<users, sessions, credentials, writers, navVars, formVars>>

\* ... prisma.user.findUnique({ where: { id: session.user.id } })
getUserStats_findUnique(r, dbFails) ==
    /\ reqs[r].pc = "authed"
    /\ reqs[r].op = "getUserStats"
    /\ LET res == [Result("getUserStats", reqs[r].user, reqs[r].token) EXCEPT
                      !.entered = TRUE, !.storeCalls = 1,
                      !.existed = user_findUnique(Db, reqs[r].user).exists, !.storeDown = dbFails]
           row == user_findUnique(Db, reqs[r].user)
       IN last' = IF dbFails THEN Returned(res, 0, FALSE, getUserStats_catch(StoreFailure))
                  ELSE IF ~row.exists THEN Returned(res, 0, FALSE, "User not found")
                  ELSE Returned([res EXCEPT !.dataOf = reqs[r].user], 0, TRUE, "none")
    /\ reqs' = [reqs EXCEPT ![r] = IdleReq]
    /\ UNCHANGED <<users, sessions, credentials, writers, started, navVars, formVars>>

----------------------------------------------------------------------------
(* app/api/user/profile/route.ts and app/api/user/settings/route.ts         *)

\* const authResult = await requireApiAuth(); if ("error" in authResult) ...
Api_requireApiAuth(r, op, token) ==
    /\ Begin(r)
    /\ LET a == requireApiAuth(auth(Db, token)) IN
         IF a.error # "none"
         THEN /\ last' = Returned(Result(op, "none", token), a.status, FALSE, a.body)
              /\ UNCHANGED reqs
         ELSE /\ reqs' = [reqs EXCEPT ![r] = Authed(op, token, a.user)]
              /\ UNCHANGED last
    /\ UNCHANGED <<users, sessions, credentials, writers, navVars, formVars>>

GET_profile_requireApiAuth(r, token) == Api_requireApiAuth(r, "GET_profile", token)
GET_settings_requireApiAuth(r, token) == Api_requireApiAuth(r, "GET_settings", token)
PUT_settings_requireApiAuth(r, token) == Api_requireApiAuth(r, "PUT_settings", token)

\* try { prisma.user.findUnique(...) } of both GET handlers.
Api_findUnique(r, op, dbFails) ==
    /\ reqs[r].pc = "authed"
    /\ reqs[r].op = op
    /\ LET res == [Result(op, reqs[r].user, reqs[r].token) EXCEPT
                      !.entered = TRUE, !.storeCalls = 1,
                      !.existed = user_findUnique(Db, reqs[r].user).exists, !.storeDown = dbFails]
           row == user_findUnique(Db, reqs[r].user)
       IN last' = IF dbFails THEN Returned(res, 500, FALSE, "Internal server error")
                  ELSE IF ~row.exists THEN Returned(res, 404, FALSE, "User not found")
                  ELSE Returned([res EXCEPT !.dataOf = reqs[r].user], 200, TRUE, "none")
    /\ reqs' = [reqs EXCEPT ![r] = IdleReq]
    /\ UNCHANGED <<users, sessions, credentials, writers, started, navVars, formVars>>

GET_profile_findUnique(r, dbFails) == Api_findUnique(r, "GET_profile", dbFails)
GET_settings_findUnique(r, dbFails) == Api_findUnique(r, "GET_settings", dbFails)

\* A schema that accepts every body.
updateSettingsSchema_AcceptAll(body) ==
    [success |-> TRUE, data |-> [name |-> body.name, email |-> body.email],
     fieldErrors |-> {}]

\* updateSettingsSchema.safeParse(body): unknown keys (id) are stripped;
\* error.flatten().fieldErrors names the fields that failed.
updateSettingsSchema(body) ==
    LET bad == (IF body.name = "" THEN {"name"} ELSE {}) \cup
               (IF body.email = "bad" THEN {"email"} ELSE {})
    IN IF bad # {}
       THEN [success |-> FALSE, data |-> [name |-> "undef", email |-> "undef"],
             fieldErrors |-> bad]
       ELSE [success |-> TRUE, data |-> [name |-> body.name, email |-> body.email],
             fieldErrors |-> {}]

\* A catch block that answers every failure alike.
PUT_settings_catch_Generic(error) == [status |-> 500, error |-> "Internal server error"]

\* The catch block of PUT.
PUT_settings_catch(error) ==
    IF error.message = "Unique constraint failed"
    THEN [status |-> 409, error |-> "Email already in use"]
    ELSE [status |-> 500, error |-> "Internal server error"]

\* The id the update is keyed on, were it taken from the body when present.
PUT_settings_where_FromBody(user, bodyId) == IF bodyId # "undef" THEN bodyId ELSE user

\* where: { id: user.id }
PUT_settings_where(user, bodyId) == user

\* try { body = await request.json(); validate; prisma.user.update(...) }
PUT_settings_update(r, body, dbFails) ==
    /\ reqs[r].pc = "authed"
    /\ reqs[r].op = "PUT_settings"
    /\ LET res == [Result("PUT_settings", reqs[r].user, reqs[r].token) EXCEPT
                      !.entered = TRUE, !.input = BodyKind(body),
                      !.target = IF body.json THEN body.id ELSE "undef"]
           v   == updateSettingsSchema(body)
           id  == PUT_settings_where(reqs[r].user, body.id)
           w   == IF dbFails THEN [threw |-> StoreFailure, db |-> Db]
                  ELSE user_update(Db, id, v.data)
           called == [res EXCEPT !.storeCalls = 1, !.wroteTo = id,
                                 !.changed = Touched(Db, w.db),
                                 !.supplied = { f \in {"name", "email"} : v.data[f] # "undef" },
                                 !.existed = user_findUnique(Db, reqs[r].user).exists,
                                 !.conflict = HeldByOther(reqs[r].user, body.email),
                                 !.storeDown = dbFails]
           c   == PUT_settings_catch(w.threw)
           j   == PUT_settings_catch(Thrown("SyntaxError", "Unexpected token"))
       IN IF ~body.json
          THEN /\ last' = Returned(res, j.status, FALSE, j.error)
               /\ UNCHANGED <<users, sessions, credentials, writers>>
          ELSE IF ~v.success
          THEN /\ last' = Returned([res EXCEPT !.details = v.fieldErrors],
                                   400, FALSE, "Invalid input")
               /\ UNCHANGED <<users, sessions, credentials, writers>>
          ELSE /\ Commit(w.db, reqs[r].user)
               /\ last' = IF w.threw # NoThrow
                          THEN Returned(called, c.status, FALSE, c.error)
                          ELSE Returned([called EXCEPT !.dataOf = id], 200, TRUE, "none")
    /\ reqs' = [reqs EXCEPT ![r] = IdleReq]
    /\ UNCHANGED <<started, navVars, formVars>>

----------------------------------------------------------------------------
(* A checkpoint invoked on its own: the request reaches it without having   *)
(* passed any other checkpoint.                                             *)

ProtectedPaths == {DashboardPath, SettingsApiPath}

GuardOutcome(g, session, pathname) ==
    IF g = "proxy" THEN
        LET resp == proxy(pathname, session) IN
        [http |-> resp.status, error |-> resp.kind]
    ELSE IF g = "requireAuthWithRedirect" THEN
        LET resp == requireAuthWithRedirect(session, TRUE, pathname) IN
        [http |-> IF resp.redirect THEN 307 ELSE 0,
         error |-> IF resp.redirect THEN "redirect" ELSE "next"]
    ELSE IF g = "requireApiAuth" THEN
        LET a == requireApiAuth(session) IN
        [http |-> a.status, error |-> IF a.error # "none" THEN a.body ELSE "next"]
    ELSE IF g = "requireAuth" THEN
        LET a == requireAuth(session) IN
        [http |-> 0, error |-> IF a.threw # NoThrow THEN a.threw.name ELSE "next"]
    ELSE
        LET a == requireUser(session) IN
        [http |-> 0, error |-> IF a.threw # NoThrow THEN a.threw.name ELSE "next"]

InvokeGuard(r, g, token, pathname) ==
    /\ Begin(r)
    /\ LET session == auth(Db, token)
           out == GuardOutcome(g, session, pathname)
       IN last' = Returned(Result(g, session.user, token), out.http, out.error = "next", out.error)
    /\ UNCHANGED <<users, sessions, credentials, reqs, writers, navVars, formVars>>

\* A page calling getOptionalAuth() to choose what to show.
getOptionalAuth_call(r, token) ==
    /\ Begin(r)
    /\ LET o == getOptionalAuth(auth(Db, token))
           res == Result("getOptionalAuth", o.session.user, token)
       IN last' = IF o.threw # NoThrow THEN Returned(res, 0, FALSE, o.threw.name)
                  ELSE IF o.redirect THEN Returned(res, 307, FALSE, "redirect")
                  ELSE Returned(res, 0, TRUE, "none")
    /\ UNCHANGED <<users, sessions, credentials, reqs, writers, navVars, formVars>>

----------------------------------------------------------------------------
(* Session Issuer: Auth.js signIn / signOut against the Session table.      *)

\* A completed passkey ceremony with one of the account's passkeys issues a
\* session for it, under a token never issued before.
SignIn(token) ==
    /\ sessions[token] = "none"
    /\ token = "tA2" => sessions["tA"] # "none"
    /\ users[TokenUser(token)].exists
    /\ \E c \in CredIds : credentials[c] = TokenUser(token)
    /\ sessions' = [sessions EXCEPT ![token] = TokenUser(token)]
    /\ UNCHANGED <<users, credentials, reqs, started, writers, last, navVars, formVars>>

\* The dashboard's sign-out form action: signOut() deletes the Session row.
SignOut(token) ==
    /\ sessions[token] \in Ids
    /\ sessions' = [sessions EXCEPT ![token] = "revoked"]
    /\ UNCHANGED <<users, credentials, reqs, started, writers, last, navVars, formVars>>

\* A session reaches the end of its lifetime.
Expire(token) ==
    /\ sessions[token] \in Ids
    /\ sessions' = [sessions EXCEPT ![token] = "expired"]
    /\ UNCHANGED <<users, credentials, reqs, started, writers, last, navVars, formVars>>

----------------------------------------------------------------------------

\* No navigation is part of the store's behaviours.
NavIdle ==
    /\ edgeBuild = "proxy"
    /\ homeBuild = "v1"
    /\ dashBuild = "v1"
    /\ navSession = NoSession
    /\ navStart = RootPath
    /\ navPath = RootPath
    /\ navStage = "done"
    /\ navHops = 0
    /\ navResp = NoResp

\* Two registered accounts, each with one passkey, nobody signed in.
StoreInit ==
    /\ users = [i \in Ids |-> [exists |-> TRUE, name |-> "n0",
                               email |-> IF i = "A" THEN "e1" ELSE "null"]]
    /\ sessions = [t \in Tokens |-> "none"]
    /\ credentials = [c \in CredIds |-> CredUser(c)]
    /\ reqs = [r \in Slots |-> IdleReq]
    /\ started = 0
    /\ writers = [i \in Ids |-> {}]
    /\ last = NoResult

Init == NavIdle /\ StoreInit /\ FormIdle

\* The first session of each account, and the cookies a request may carry.
FirstTokens == {"tA", "tB"}
AnyToken == FirstTokens \cup {"none"}

Next ==
    \/ \E r \in Slots, t \in AnyToken : updateProfile_requireUser(r, t)
    \/ \E r \in Slots, n \in NameInputs, f \in TargetInputs, d \in BOOLEAN :
          updateProfile_update(r, n, f, d)
    \/ \E r \in Slots, t \in AnyToken : deleteAccount_requireUser(r, t)
    \/ \E r \in Slots, d \in BOOLEAN : deleteAccount_delete(r, d)
    \/ \E r \in Slots, t \in AnyToken : getUserStats_requireAuth(r, t)
    \/ \E r \in Slots, d \in BOOLEAN : getUserStats_findUnique(r, d)
    \/ \E r \in Slots, t \in AnyToken : GET_profile_requireApiAuth(r, t)
    \/ \E r \in Slots, d \in BOOLEAN : GET_profile_findUnique(r, d)
    \/ \E r \in Slots, t \in AnyToken : GET_settings_requireApiAuth(r, t)
    \/ \E r \in Slots, d \in BOOLEAN : GET_settings_findUnique(r, d)
    \/ \E r \in Slots, t \in AnyToken : PUT_settings_requireApiAuth(r, t)
    \/ \E r \in Slots, b \in Bodies, d \in BOOLEAN : PUT_settings_update(r, b, d)
    \/ \E t \in FirstTokens : SignIn(t)
    \/ \E t \in FirstTokens : SignOut(t)

Spec == Init /\ [][Next]_vars

\* Sessions over time: accounts sign in, out and in again while requests
\* carrying any cookie ever issued reach the checkpoints.
NextSessions ==
    \/ \E t \in Tokens : SignIn(t)
    \/ \E t \in Tokens : SignOut(t)
    \/ \E r \in Slots, g \in Guards, t \in Tokens \cup {"none"}, p \in ProtectedPaths :
          InvokeGuard(r, g, t, p)
    \/ \E r \in Slots, t \in Tokens \cup {"none"} : updateProfile_requireUser(r, t)
    \/ \E r \in Slots, t \in Tokens \cup {"none"} : PUT_settings_requireApiAuth(r, t)
    \/ \E r \in Slots, d \in BOOLEAN : deleteAccount_delete(r, d)
    \/ \E r \in Slots, t \in Tokens \cup {"none"} : deleteAccount_requireUser(r, t)
    \/ \E r \in Slots, t \in Tokens \cup {"none"} : getOptionalAuth_call(r, t)
    \/ \E t \in Tokens : Expire(t)

SpecSessions == Init /\ [][NextSessions]_vars

----------------------------------------------------------------------------
(* The sign-in form on its own: the visitor types, switches mode and        *)
(* clicks, and handlePasskeyAuth is also called past the button's disabled  *)
(* attribute, which is all that stands between a click and the handler.     *)

InitForm == NavIdle /\ StoreInit /\ FormIdle

NextForm ==
    \/ \E e \in Emails : setEmail(e)
    \/ setMode
    \/ SubmitButton
    \/ \E action \in {"signin", "register"} : handlePasskeyAuth(action)
    \/ \E outcome \in Outcomes : signIn_settles(outcome)

SpecForm == InitForm /\ [][NextForm]_vars

----------------------------------------------------------------------------
(* Properties of the edge checkpoint and of navigation (SpecNav).           *)

\* The request the last edge response answers is still navPath.
EdgeAnswered == navResp.by \in {"edge", "unmatched", "proxy-direct"}

\* The allow-list the code applies at the edge: what config.matcher leaves
\* out and what proxy() lets through by authRoutes.
AllowListed(pathname) == ~matcher(pathname) \/ isRouteMatch(pathname, authRoutes)

\* C1: the proxy function, on a request whose path matches neither authRoutes
\* nor publicRoutes, redirects a session without user to /auth/signin with
\* callbackUrl equal to the request's pathname, and forwards a session with
\* a user.
C1_ProxyDecision ==
    ( /\ navResp.by \in {"edge", "proxy-direct"}
      /\ edgeBuild = "proxy"
      /\ ~isRouteMatch(navPath, authRoutes)
      /\ ~isRouteMatch(navPath, publicRoutes) )
    => IF HasUser(navSession)
       THEN navResp.kind = "next"
       ELSE /\ navResp.kind = "redirect"
            /\ navResp.path = SignInPath
            /\ decodeURIComponent(navResp.callbackUrl) = navPath

C1_Witness ==
    /\ navResp.by = "edge"
    /\ edgeBuild = "proxy"
    /\ ~HasUser(navSession)
    /\ navPath = SettingsApiPath
    /\ navResp.kind = "redirect"
    /\ navResp.callbackUrl = <<"%2F", "api", "%2F", "user", "%2F", "settings">>

\* C7: every path off the allow-list, "/" and /dashboard and /api/user/*
\* included, is denied (redirected) at the edge when no session is present,
\* whichever edge checkpoint the deployment exports.
C7_EdgeDefaultProtected ==
    ( /\ navResp.by \in {"edge", "unmatched"}
      /\ ~HasUser(navSession)
      /\ ~AllowListed(navPath) )
    => navResp.kind = "redirect"

\* C8 as stated: allow-listed paths are not redirected by the edge, and a
\* client following redirects ends, unauthenticated, on the sign-in page and,
\* authenticated, on the requested page or /dashboard.  Stated for the
\* deployments whose edge protects "/" and for the starting paths the
\* application serves.
AppRoutes ==
    { RootPath, DashboardPath, SignInPath, ErrorPath, ProfileApiPath, SettingsApiPath }

C8_Original ==
    (edgeBuild # "authorized_v1" /\ navStart \in AppRoutes) =>
      /\ navHops <= 1
      /\ (EdgeAnswered /\ isRouteMatch(navPath, authRoutes)) => navResp.kind = "next"
      /\ navStage = "done" =>
            IF HasUser(navSession)
            THEN navPath \in {navStart, DashboardPath}
            ELSE navPath = SignInPath

\* The unauthenticated request that is served without a session: the edge let
\* it through (allow-listed, or "/" exempted by the authorized callback) and
\* its handler has no guard.
ServedWithoutSession(pathname) ==
    \/ AllowListed(pathname)
    \/ pathname = RootPath /\ edgeBuild = "authorized_v1" /\ homeBuild = "v1"

\* C8 (amended): allow-listed paths are never redirected by the edge; a
\* client receives at most one redirect, whatever the session state and the
\* starting path; it ends, authenticated, on the requested page or
\* /dashboard and, unauthenticated, on the sign-in page or on the requested
\* page itself when that page is served without a session.
C8_NoRedirectLoop ==
    /\ navHops <= 1
    /\ navStage = "redirected" => navHops = 0
    /\ (EdgeAnswered /\ isRouteMatch(navPath, authRoutes)) => navResp.kind = "next"
    /\ navStage = "done" =>
          IF HasUser(navSession)
          THEN navPath \in {navStart, DashboardPath}
          ELSE \/ navPath = SignInPath
               \/ navPath = navStart /\ ServedWithoutSession(navStart)

C8_Witness ==
    /\ navStage = "done"
    /\ navHops = 1
    /\ ~HasUser(navSession)
    /\ navStart = DashboardPath
    /\ navPath = SignInPath
    /\ navResp.kind = "signin-form"

----------------------------------------------------------------------------
(* Properties of the checkpoints and of the handlers behind them.           *)

\* C2: each checkpoint, invoked on its own with no session, denies by its own
\* session resolution: the proxy and requireAuthWithRedirect redirect (307),
\* requireApiAuth answers 401, requireAuth and requireUser throw an error
\* named AuthenticationError.
C2_EachCheckpointDenies ==
    (last.op \in Guards /\ last.user = "none") =>
        /\ ~last.success
        /\ last.op \in {"proxy", "requireAuthWithRedirect"} =>
               (last.error = "redirect" /\ last.http = 307)
        /\ last.op = "requireApiAuth" =>
               (last.http = 401 /\ last.error = "Authentication required")
        /\ last.op \in {"requireAuth", "requireUser"} =>
               last.error = "AuthenticationError"

C2_Witness ==
    /\ last.op = "requireUser"
    /\ last.user = "none"
    /\ last.error = "AuthenticationError"

\* C3: updateProfile and deleteAccount called with no session return
\* success: false with the authentication-specific error; the logic behind
\* the check is not entered and no store call is made.
C3_MutationCheckpoint ==
    (last.op \in ServerActions /\ last.user = "none") =>
        /\ ~last.success
        /\ last.error = IF last.op = "updateProfile"
                        THEN "You must be signed in to update your profile"
                        ELSE "You must be signed in to delete your account"
        /\ ~last.entered
        /\ last.storeCalls = 0
        /\ last.wroteTo = "none"
        /\ last.changed = {}

C3_Witness ==
    /\ last.op = "deleteAccount"
    /\ last.user = "none"
    /\ last.error = "You must be signed in to delete your account"
    /\ \E t \in Tokens : sessions[t] # "none"

\* C4: an account's rows have been modified or deleted only by calls whose
\* session was bound to that account.
C4_OwnAccountOnly ==
    \A i \in Ids : writers[i] \subseteq {i}

C4_Witness ==
    /\ writers["A"] = {"A"}
    /\ writers["B"] = {"B"}
    /\ ~users["B"].exists
    /\ users["A"].name = "n1"

\* A mutation by a signed-in user that names another account's id.
CrossAccount ==
    /\ last.op \in {"updateProfile", "PUT_settings"}
    /\ last.user \in Ids
    /\ last.target \in Ids \ {last.user}

C6_ApiCheckpoint ==
    (last.op \in ApiRoutes /\ last.user = "none") =>
        /\ last.http = 401
        /\ last.error = "Authentication required"
        /\ ~last.success
        /\ ~last.entered
        /\ last.storeCalls = 0
        /\ last.changed = {}
        /\ last.dataOf = "none"

C6_Witness ==
    /\ last.op = "PUT_settings"
    /\ last.user = "none"
    /\ last.http = 401

\* C10: no Session and no Authenticator row references a missing User, also
\* after a deletion that failed.
C10_NoOrphans ==
    /\ \A t \in Tokens : sessions[t] \in Ids => users[sessions[t]].exists
    /\ \A c \in CredIds : credentials[c] \in Ids => users[credentials[c]].exists

C10_Witness ==
    /\ last.op = "deleteAccount"
    /\ last.success
    /\ last.user = "A"
    /\ ~users["A"].exists
    /\ credentials["cA"] = "none"
    /\ sessions["tA"] = "none"
    /\ writers["A"] = {"A"}

\* C11: a PUT /api/user/settings by an existing account that sets its email
\* to one another account holds, the store answering, returns 409 "Email
\* already in use" and changes no row of either account.
C11_EmailConflict ==
    ( /\ last.op = "PUT_settings"
      /\ last.input = "valid"
      /\ last.existed
      /\ last.conflict
      /\ ~last.storeDown )
    => ( /\ last.http = 409
         /\ last.error = "Email already in use"
         /\ ~last.success
         /\ last.changed = {} )

C11_Witness ==
    /\ last.op = "PUT_settings"
    /\ last.user = "A"
    /\ last.http = 409
    /\ last.error = "Email already in use"
    /\ last.changed = {}
    /\ users["A"].email = "e1"
    /\ users["B"].email = "e2"

\* C12: no two existing accounts hold the same non-null email, whatever the
\* interleaving of PUT /api/user/settings requests.
C12_EmailUnique ==
    \A i \in Ids : \A j \in Ids \ {i} :
        (users[i].exists /\ users[j].exists /\ users[i].email # "null")
            => users[i].email # users[j].email

\* Two PUTs of different accounts in flight at once; the first has written
\* its email, the second has yet to write.
C12_Witness ==
    /\ last.op = "PUT_settings"
    /\ last.success
    /\ last.user = "B"
    /\ users["B"].email = "e2"
    /\ users["A"].email = "e1"
    /\ \E r \in Slots : reqs[r] = Authed("PUT_settings", "tA", "A")

C14_PutOutcomes ==
    (last.op = "PUT_settings" /\ ~last.storeDown) =>
        \/ last.http = 200 /\ last.success /\ last.dataOf = last.user
        \/ last.http = 400 /\ last.input \in {"invalid", "unparsable"}
        \/ last.http = 401 /\ last.user = "none"
        \/ last.http = 409 /\ last.conflict

\* C15: GET /api/user/profile and GET /api/user/settings, the store
\* answering, return the data of the session's account or 401 when there is
\* no session, and nothing else.
C15_GetOutcomes ==
    (last.op \in {"GET_profile", "GET_settings"} /\ ~last.storeDown) =>
        \/ last.http = 200 /\ last.user \in Ids /\ last.dataOf = last.user
        \/ last.http = 401 /\ last.user = "none" /\ last.dataOf = "none"

\* The text of the errors the store itself raises.
RawStoreMessages ==
    {"Can't reach database server", "Record to update not found",
     "Record to delete does not exist", "Unique constraint failed"}

Denied(res) ==
    /\ res.user = "none"
    /\ ~res.success
    /\ ~res.entered
    /\ res.storeCalls = 0
    /\ res.op \in {"proxy", "requireAuthWithRedirect"} => res.error = "redirect"
    /\ res.op \in ApiRoutes \cup {"requireApiAuth"} => res.http = 401
    /\ res.op \in {"requireAuth", "requireUser"} => res.error = "AuthenticationError"
    /\ res.op = "updateProfile" => res.error = "You must be signed in to update your profile"
    /\ res.op = "deleteAccount" => res.error = "You must be signed in to delete your account"

\* C17: once sign-out has revoked a session it stays revoked, and every
\* session check made afterwards for a request presenting it is denied: no
\* handler passes its check with it and every checkpoint's answer is a deny.
C17_RevokedStaysDenied ==
    [][\A t \in Tokens :
          sessions[t] = "revoked" =>
              /\ sessions'[t] = "revoked"
              /\ auth(Db, t) = NoSession
              /\ \A r \in Slots :
                    (reqs[r].pc = "idle" /\ reqs'[r].pc = "authed") => reqs'[r].token # t
              /\ (started' # started /\ reqs' = reqs /\ last'.token = t) =>
                    IF last'.op = "getOptionalAuth" THEN last'.user = "none"
                    ELSE Denied(last')
      ]_vars

\* The account signed out and in again; a request with the old cookie was
\* denied while the new session is valid.
C17_Witness ==
    /\ sessions["tA"] = "revoked"
    /\ sessions["tA2"] = "A"
    /\ last.token = "tA"
    /\ last.op = "requireApiAuth"
    /\ last.http = 401

\* C18: getOptionalAuth returns the session or null and neither throws nor
\* redirects, whatever the state of the presented session: it returns the
\* session's user exactly when the cookie names a valid session.
C18_OptionalAuthNeverThrows ==
    [][(started' # started /\ reqs' = reqs /\ last'.op = "getOptionalAuth") =>
          /\ last'.success
          /\ last'.error = "none"
          /\ last'.http = 0
          /\ last'.user =
                IF last'.token \in Tokens /\ sessions[last'.token] \in Ids
                   /\ users[sessions[last'.token]].exists
                THEN sessions[last'.token] ELSE "none"
      ]_vars

\* Called with a cookie whose session has expired.
C18_Witness ==
    /\ last.op = "getOptionalAuth"
    /\ last.token = "tB"
    /\ sessions["tB"] = "expired"
    /\ last.user = "none"
    /\ last.success

\* The routes the application guards: the home page, the dashboard and the
\* user API.
GuardedRoutes == {RootPath, DashboardPath, ProfileApiPath, SettingsApiPath}

\* C24: on a guarded route the edge checkpoint, the page/route checkpoint and
\* the mutation checkpoint reach the same decision for the same session, each
\* allowing exactly when the session carries a user.
C24_CheckpointsAgree ==
    (navResp.by = "edge" /\ navPath \in GuardedRoutes) =>
        /\ (navResp.kind = "next") = HasUser(navSession)
        /\ (~requireAuthWithRedirect(navSession, TRUE, navPath).redirect) = HasUser(navSession)
        /\ (requireApiAuth(navSession).error = "none") = HasUser(navSession)
        /\ (requireAuth(navSession).threw = NoThrow) = HasUser(navSession)
        /\ (requireUser(navSession).threw = NoThrow) = HasUser(navSession)

\* The handlers that write to the store.
Mutations == {"updateProfile", "deleteAccount", "PUT_settings"}

\* C25: a mutation whose session was revoked by sign-out between its session
\* check and its store write does not write: the step that completes it
\* leaves every row as it was.
C25_NoWriteAfterRevoke ==
    [][\A r \in Slots :
          ( /\ reqs[r].pc = "authed"
            /\ reqs[r].op \in Mutations
            /\ sessions[reqs[r].token] = "revoked"
            /\ reqs'[r].pc = "idle" )
          => ( /\ users' = users
               /\ sessions' = sessions
               /\ credentials' = credentials )]_vars

\* C26: when deleteAccount and an update of the same account interleave, an
\* update whose write runs after the delete returns a failure result and
\* writes nothing, and a deleted account's row is gone as a whole: it is
\* neither re-created nor left with some of its fields.
C26_DeletedStaysDeleted ==
    /\ ( /\ last.op \in {"updateProfile", "PUT_settings"}
         /\ last.storeCalls = 1
         /\ ~last.existed )
       => /\ ~last.success
          /\ last.changed = {}
          /\ last.op = "updateProfile" =>
                last.error = "Failed to update profile. Please try again."
          /\ last.op = "PUT_settings" =>
                last.http = 500 /\ last.error = "Internal server error"
    /\ \A i \in Ids : ~users[i].exists => users[i] = Absent

C26_Witness ==
    /\ last.op = "PUT_settings"
    /\ last.user = "A"
    /\ last.storeCalls = 1
    /\ ~last.existed
    /\ ~last.storeDown
    /\ last.http = 500
    /\ users["A"] = Absent
    /\ writers["A"] = {"A"}
    /\ users["B"].exists

\* C27: a successful update changes only the supplied fields of the acting
\* account: updateProfile passes only name, PUT /api/user/settings passes
\* name and email only when the body holds them; every field not passed,
\* every session and credential, and every other account stay as they were.
C27_UpdateFrame ==
    [][\A r \in Slots :
          ( /\ reqs[r].pc = "authed"
            /\ reqs[r].op \in {"updateProfile", "PUT_settings"}
            /\ reqs'[r].pc = "idle"
            /\ last'.success )
          => LET u == reqs[r].user IN
             /\ last'.op = reqs[r].op
             /\ last'.user = u
             /\ reqs[r].op = "updateProfile" => last'.supplied = {"name"}
             /\ \A i \in Ids \ {u} : users'[i] = users[i]
             /\ sessions' = sessions
             /\ credentials' = credentials
             /\ users'[u].exists = users[u].exists
             /\ "name" \notin last'.supplied => users'[u].name = users[u].name
             /\ "email" \notin last'.supplied => users'[u].email = users[u].email]_vars

C27_Witness ==
    /\ last.op = "PUT_settings"
    /\ last.success
    /\ last.user = "A"
    /\ last.supplied = {"email"}
    /\ last.changed = {"A"}
    /\ users["A"] = [exists |-> TRUE, name |-> "n0", email |-> "e2"]
    /\ users["B"] = [exists |-> TRUE, name |-> "n0", email |-> "null"]

\* C28: a request to /auth/signin passes the edge without a redirect; its
\* page redirects a session that carries a user to /dashboard and never
\* renders the form for it, and renders the form for a request with no
\* session.
C28_SignInPage ==
    navPath = SignInPath =>
        /\ navResp.by \in {"edge", "proxy-direct"} => navResp.kind = "next"
        /\ navResp.by = "page" =>
              IF HasUser(navSession)
              THEN /\ navResp.kind = "redirect"
                   /\ navResp.path = DashboardPath
              ELSE navResp.kind = "signin-form"

C28_Witness ==
    /\ navStart = SignInPath
    /\ navPath = SignInPath
    /\ navHops = 0
    /\ HasUser(navSession)
    /\ navResp.by = "page"
    /\ navResp.kind = "redirect"
    /\ navResp.path = DashboardPath

\* C29: a register attempt with an empty email never starts a ceremony
\* (signIn is not called) and sets the error "Email is required for
\* registration"; an authenticate attempt starts the ceremony with no email,
\* whatever the form's email field holds.
C29_EmailRequiredToRegister ==
    /\ (call.action = "register" /\ call.email = "") =>
          /\ ~call.signIn.called
          /\ call.pc = "idle"
          /\ After(call.setError, "null") = "Email is required for registration"
    /\ call.action = "signin" =>
          call.signIn = [called |-> TRUE, action |-> "authenticate", email |-> "undef"]

C29_Witness ==
    /\ call.action = "register"
    /\ call.email = ""
    /\ ~call.signIn.called
    /\ form.mode = "register"
    /\ form.error = "Email is required for registration"
    /\ ~form.isLoading

\* C30: handlePasskeyAuth sets isLoading first, isLoading is true while the
\* ceremony is awaited, and it is false again once the handler has finished,
\* whether the ceremony resolved, threw, or the email was missing.
C30_LoadingCleared ==
    /\ call.pc = "awaiting" => form.isLoading
    /\ call.pc = "idle" => ~form.isLoading
    /\ call.action # "none" =>
          /\ call.setIsLoading # <<>>
          /\ call.setIsLoading[1] = TRUE
    /\ (call.action # "none" /\ call.pc = "idle") =>
          call.setIsLoading[Len(call.setIsLoading)] = FALSE

C30_Witness ==
    /\ call.pc = "idle"
    /\ call.action = "signin"
    /\ call.signIn.called
    /\ call.setIsLoading = <<TRUE, FALSE>>
    /\ form.error = "err.message"
    /\ ~form.isLoading

====
